---------------------------- MODULE Spec2Model ----------------------------
(***************************************************************************)
(* A model of UE4Parse's BinaryStream (src/UE4Parse/BinaryReader.py) and   *)
(* of the two mesh decoders built on it (FRawStaticIndexBuffer,            *)
(* FStaticMeshLODResources).                                               *)
(*                                                                         *)
(* A byte source is a sequence of bytes (0..255) with a cursor `pos`, the  *)
(* number of bytes already passed.  Python values are modelled as follows: *)
(*   bytes          a sequence of 0..255                                   *)
(*   str            the sequence of its code points                        *)
(*   int            an integer; a value that does not fit TLC's    *)
(*                  integers is kept as [wide |-> its bytes]               *)
(*   float          [float |-> its bytes] (the bit pattern is not decoded) *)
(*   None           the string "None"                                      *)
(* Every reader is an operator from (bytes, cursor) to a record            *)
(*   [err, val, pos, short]                                                *)
(* err is "none" or the name of the exception raised, pos the cursor       *)
(* afterwards (a read that raises has still moved the cursor), and short   *)
(* tells whether some underlying base_stream.read returned fewer bytes     *)
(* than it was asked for.                                                  *)
(***************************************************************************)
EXTENDS Integers, Sequences, FiniteSets, TLC

VARIABLES
    base,       \* bytes of self.base_stream
    pos,        \* self.base_stream.tell()
    size,       \* self.size
    fake_size,  \* self.fake_size, NoAttr while the attribute was never assigned
    first,      \* [bytes, pos] of the stream self.tell/self.readBytes were bound to
    rebound,    \* TRUE once change_stream replaced base_stream
    env,        \* reader.version, reader.game, the package's name map
    src,        \* what the bytes of `base` were built from (ghost)
    ret         \* the last operation: name, outcome and what it returned

vars == <<base, pos, size, fake_size, first, rebound, env, src, ret>>

---------------------------------------------------------------------------
(* Bounds of the model *)

\* longest payload that follows a 4-byte header in the primitive inputs
MaxPayload == 4
\* longest name table
MaxNames == 2
\* largest length passed to read(length)
MaxRead == 2

INT32_MIN == -2147483647 - 1

Min(a, b) == IF a < b THEN a ELSE b

RECURSIVE SeqsUpTo(_, _)
SeqsUpTo(S, n) ==
    IF n = 0 THEN {<<>>}
    ELSE LET shorter == SeqsUpTo(S, n - 1)
         IN  shorter \cup {Append(s, x) : s \in {t \in shorter : Len(t) = n - 1}, x \in S}

Prefixes(s) == {SubSeq(s, 1, k) : k \in 0..Len(s)}

---------------------------------------------------------------------------
(* io.BytesIO and struct *)

\* BytesIO.read(n): at most n bytes from the cursor; never raises
RawRead(b, p, n) ==
    LET last == Min(p + n, Len(b))
        data == SubSeq(b, p + 1, last)
    IN  [bytes |-> data, pos |-> IF p < Len(b) THEN last ELSE p, short |-> Len(data) < n]

RECURSIVE LEU(_)
\* int.from_bytes(bs, "little")
LEU(bs) == IF bs = <<>> THEN 0 ELSE bs[1] + 256 * LEU(Tail(bs))

Wide(bs) == [wide |-> bs]

\* bytes whose unsigned little-endian value fits a TLC integer
Fits31(bs) ==
    /\ \A i \in 5..Len(bs) : bs[i] = 0
    /\ Len(bs) >= 4 => bs[4] < 128

UnsignedValue(bs) == IF Fits31(bs) THEN LEU(bs) ELSE Wide(bs)

\* two's complement
SignedValue(bs) ==
    LET n == Len(bs)
    IN  IF bs[n] < 128 THEN UnsignedValue(bs)
        ELSE IF n <= 4 THEN LEU(SubSeq(bs, 1, n - 1)) + (bs[n] - 256) * 256 ^ (n - 1)
        ELSE IF (\A i \in 5..n : bs[i] = 255) /\ bs[4] >= 128
             THEN LEU(SubSeq(bs, 1, 3)) + (bs[4] - 256) * 16777216
        ELSE Wide(bs)

\* struct.calcsize of the one-character formats (native sizes, no padding
\* for a single item)
calcsize(fmt) ==
    CASE fmt \in {"b", "B", "c", "?"} -> 1
      [] fmt \in {"h", "H"} -> 2
      [] fmt \in {"i", "I", "f"} -> 4
      [] fmt \in {"q", "Q", "d"} -> 8

\* the value struct.unpack(fmt, bs)[0] of a buffer of the right length
\* (little-endian host)
StructValue(fmt, bs) ==
    CASE fmt \in {"b", "h", "i", "q"} -> SignedValue(bs)
      [] fmt \in {"B", "H", "I", "Q"} -> UnsignedValue(bs)
      [] fmt \in {"f", "d"} -> [float |-> bs]
      [] fmt = "c" -> bs
      [] fmt = "?" -> bs[1] # 0

R(e, v, p, sh) == [err |-> e, val |-> v, pos |-> p, short |-> sh]

Failed(r) == r.err # "none"

---------------------------------------------------------------------------
(* bytes.decode("utf-8"), strict *)

IsCont(x) == x >= 128 /\ x <= 191

Utf8Need(b0) ==
    IF b0 < 128 THEN 1
    ELSE IF b0 >= 194 /\ b0 <= 223 THEN 2
    ELSE IF b0 >= 224 /\ b0 <= 239 THEN 3
    ELSE IF b0 >= 240 /\ b0 <= 244 THEN 4
    ELSE 0

Utf8Valid(bs, need) ==
    /\ need > 0
    /\ Len(bs) >= need
    /\ \A i \in 2..need : IsCont(bs[i])
    /\ bs[1] = 224 => bs[2] >= 160
    /\ bs[1] = 237 => bs[2] <= 159
    /\ bs[1] = 240 => bs[2] >= 144
    /\ bs[1] = 244 => bs[2] <= 143

Utf8CodePoint(bs, need) ==
    CASE need = 1 -> bs[1]
      [] need = 2 -> (bs[1] - 192) * 64 + (bs[2] - 128)
      [] need = 3 -> (bs[1] - 224) * 4096 + (bs[2] - 128) * 64 + (bs[3] - 128)
      [] need = 4 -> (bs[1] - 240) * 262144 + (bs[2] - 128) * 4096
                        + (bs[3] - 128) * 64 + (bs[4] - 128)

RECURSIVE Utf8Decode(_)
Utf8Decode(bs) ==
    IF bs = <<>> THEN [ok |-> TRUE, chars |-> <<>>]
    ELSE LET need == Utf8Need(bs[1])
         IN  IF ~Utf8Valid(bs, need) THEN [ok |-> FALSE, chars |-> <<>>]
             ELSE LET rest == Utf8Decode(SubSeq(bs, need + 1, Len(bs)))
                  IN  IF rest.ok
                      THEN [ok |-> TRUE, chars |-> <<Utf8CodePoint(bs, need)>> \o rest.chars]
                      ELSE rest

---------------------------------------------------------------------------
(* BinaryStream: the readers *)

\* fake_size while the attribute does not exist (it is only annotated)
NoAttr == -1

\* unpack(fmt, length): struct.unpack raises unless the buffer has exactly
\* calcsize(fmt) bytes
unpack(fmt, b, p, length) ==
    LET rd == RawRead(b, p, length)
    IN  IF Len(rd.bytes) # calcsize(fmt)
        THEN R("struct.error", "None", rd.pos, rd.short)
        ELSE R("none", StructValue(fmt, rd.bytes), rd.pos, rd.short)

\* unpack(str(n) + 's', length): the n bytes themselves
unpack_s(n, b, p, length) ==
    LET rd == RawRead(b, p, length)
    IN  IF Len(rd.bytes) # n
        THEN R("struct.error", "None", rd.pos, rd.short)
        ELSE R("none", rd.bytes, rd.pos, rd.short)

readByte(b, p) ==
    LET rd == RawRead(b, p, 1)
    IN  R("none", rd.bytes, rd.pos, rd.short)

readByteToInt(b, p, length) ==
    LET rd == RawRead(b, p, length)
    IN  R("none", UnsignedValue(rd.bytes), rd.pos, rd.short)

readInt8(b, p) == readByteToInt(b, p, 1)
readUInt8(b, p) == readByteToInt(b, p, 1)
readChar(b, p) == unpack("b", b, p, 1)
readUChar(b, p) == unpack("B", b, p, 1)
readSByte(b, p) == unpack("b", b, p, 1)
readInt16(b, p) == unpack("h", b, p, 2)
readUInt16(b, p) == unpack("H", b, p, 2)
readInt32(b, p) == unpack("i", b, p, 4)
readUInt32(b, p) == unpack("I", b, p, 4)
readInt64(b, p) == unpack("q", b, p, 8)
readUInt64(b, p) == unpack("Q", b, p, 8)
readFloat(b, p) == unpack("f", b, p, 4)
readDouble(b, p) == unpack("d", b, p, 8)

readBool(b, p) ==
    LET r == readInt32(b, p)
    IN  IF Failed(r) THEN r
        ELSE IF r.val \notin {0, 1} THEN R("ParserException", "None", r.pos, r.short)
        ELSE R("none", r.val # 0, r.pos, r.short)

readFlag(b, p) ==
    LET r == readUInt8(b, p)
    IN  IF r.val \notin {0, 1} THEN R("ParserException", "None", r.pos, r.short)
        ELSE R("none", r.val # 0, r.pos, r.short)

RECURSIVE read7BitLoop(_, _, _, _)
\* the loop of read7BitEncodedInt; count is kept as its 7-bit groups, least
\* significant first (count = sum of groups[i] * 128^(i-1))
read7BitLoop(b, p, groups, sh) ==
    LET r == readUInt8(b, p)
        next == Append(groups, r.val % 128)
    IN  IF r.val >= 128
        THEN read7BitLoop(b, r.pos, next, sh \/ r.short)
        ELSE R("none", next, r.pos, sh \/ r.short)

read7BitEncodedInt(b, p) == read7BitLoop(b, p, <<>>, FALSE)

\* .decode("utf-8") of the bytes a reader returned
Decoded(r) ==
    LET d == Utf8Decode(r.val)
    IN  IF d.ok THEN R("none", d.chars, r.pos, r.short)
        ELSE R("UnicodeDecodeError", "None", r.pos, r.short)

readString(b, p) ==
    LET l == readByteToInt(b, p, 1)
        r == unpack_s(l.val, b, l.pos, l.val)
    IN  IF Failed(r) THEN R(r.err, "None", r.pos, l.short \/ r.short)
        ELSE Decoded(R("none", r.val, r.pos, l.short \/ r.short))

RECURSIVE readUCS2(_, _, _, _, _)
\* the for loop of readFString: left code units to go, the last one dropped;
\* chr(v) is the character with code point v
readUCS2(b, p, left, data, sh) ==
    IF left = 0 THEN R("none", data, p, sh)
    ELSE LET r == readUInt16(b, p)
         IN  IF Failed(r) THEN R(r.err, "None", r.pos, sh \/ r.short)
             ELSE readUCS2(b, r.pos, left - 1,
                           IF left = 1 THEN data ELSE Append(data, r.val),
                           sh \/ r.short)

readFString(b, p) ==
    LET l == readInt32(b, p)
    IN  IF Failed(l) THEN l
        ELSE LET LoadUCS2Char == l.val < 0
             IN  IF LoadUCS2Char /\ l.val = INT32_MIN
                 THEN R("Exception", "None", l.pos, l.short)
                 ELSE LET length == IF LoadUCS2Char THEN -l.val ELSE l.val
                      IN  IF length = 0 THEN R("none", <<>>, l.pos, l.short)
                          ELSE IF LoadUCS2Char
                          THEN readUCS2(b, l.pos, length, <<>>, l.short)
                          ELSE LET rd == RawRead(b, l.pos, length)
                                   n == Len(rd.bytes)
                               IN  Decoded(R("none", SubSeq(rd.bytes, 1, n - 1),
                                             rd.pos, l.short \/ rd.short))

---------------------------------------------------------------------------
(* BinaryStream: names, object references, arrays *)

\* mutant of readFName: the unreachable "return FName("None")" of line 221
\* taken instead of the raise
readFName_DefaultName(b, p, NameMap) ==
    LET NameIndex == readInt32(b, p)
        Number == readInt32(b, NameIndex.pos)
    IN  IF Failed(NameIndex) THEN NameIndex
        ELSE IF Failed(Number) THEN Number
        ELSE IF ~(0 <= NameIndex.val /\ NameIndex.val < Len(NameMap))
        THEN R("none", [string |-> <<"None">>, Index |-> 0, Number |-> 0],
               Number.pos, FALSE)
        ELSE R("none",
               [string |-> NameMap[NameIndex.val + 1], Index |-> NameIndex.val,
                Number |-> Number.val],
               Number.pos, FALSE)

\* readFName; the error value carries the two numbers the message embeds
readFName(b, p, NameMap) ==
    LET NameIndex == readInt32(b, p)
        Number == readInt32(b, NameIndex.pos)
    IN  IF Failed(NameIndex) THEN NameIndex
        ELSE IF Failed(Number) THEN Number
        ELSE IF ~(0 <= NameIndex.val /\ NameIndex.val < Len(NameMap))
        THEN R("IndexError", [msg |-> <<NameIndex.val, Len(NameMap)>>],
               Number.pos, FALSE)
        ELSE R("none",
               [string |-> NameMap[NameIndex.val + 1], Index |-> NameIndex.val,
                Number |-> Number.val],
               Number.pos, FALSE)

\* FPackageIndex(reader): one int32; IsNull is Index == 0
FPackageIndex(b, p) == readInt32(b, p)

\* mutant of readObject: the IsNull test dropped, findObject asked for index 0 too
readObject_NoNullTest(b, p, found) ==
    LET index == readInt32(b, p)
    IN  IF Failed(index)
        THEN [err |-> index.err, val |-> "None", pos |-> index.pos,
              short |-> index.short, calls |-> 0, warned |-> FALSE]
        ELSE [err |-> "none",
              val |-> IF found THEN [object |-> index.val] ELSE "None",
              pos |-> index.pos, short |-> FALSE, calls |-> 1, warned |-> ~found]

\* readObject; found is what PackageReader.findObject answers when asked,
\* calls counts the findObject calls and warned tells whether logging.warn ran
readObject(b, p, found) ==
    LET index == FPackageIndex(b, p)
    IN  IF Failed(index)
        THEN [err |-> index.err, val |-> "None", pos |-> index.pos,
              short |-> index.short, calls |-> 0, warned |-> FALSE]
        ELSE IF index.val = 0
        THEN [err |-> "none", val |-> "None", pos |-> index.pos,
              short |-> FALSE, calls |-> 0, warned |-> FALSE]
        ELSE [err |-> "none",
              val |-> IF found THEN [object |-> index.val] ELSE "None",
              pos |-> index.pos, short |-> FALSE, calls |-> 1, warned |-> ~found]

\* bytes each of the decoders that are not under src consumes
OpaqueLen == 1

\* FStaticMeshSection, FPositionVertexBuffer, FStaticMeshVertexBuffer,
\* FWeightedRandomSampler: a decoder that consumes its bytes or raises
Opaque(b, p) == unpack_s(OpaqueLen, b, p, OpaqueLen)

\* the element decoders passed to readTArray / readBulkTArray
Element(func, b, p) ==
    CASE func = "readInt8" -> readInt8(b, p)
      [] func = "readUInt8" -> readUInt8(b, p)
      [] func = "readUInt16" -> readUInt16(b, p)
      [] func = "readInt32" -> readInt32(b, p)
      [] func = "readUInt32" -> readUInt32(b, p)
      [] func = "FStaticMeshSection" -> Opaque(b, p)

RECURSIVE readElements(_, _, _, _, _, _)
\* one turn of the generator: r is what func(*args) did
readElements_step(func, b, left, acc, sh, r) ==
    IF Failed(r) THEN R(r.err, "None", r.pos, sh \/ r.short)
    ELSE readElements(func, b, r.pos, left - 1, Append(acc, r.val), sh \/ r.short)

\* tuple(func(*args) for _ in range(left))
readElements(func, b, p, left, acc, sh) ==
    IF left <= 0 THEN R("none", acc, p, sh)
    ELSE readElements_step(func, b, left, acc, sh, Element(func, b, p))

\* longest element loop the model follows: range(SerializeNum) runs whatever
\* the stream holds (readUInt8 returns 0 at the end of the stream and the
\* loop goes on)
MaxIter == 12

\* the outcome that stands for a loop longer than MaxIter; no action of the
\* model is enabled with it
Beyond == "beyond MaxIter"

\* the elements, SerializeNum being what readInt32 did
readTArray_of(func, b, SerializeNum) ==
    IF Failed(SerializeNum) THEN SerializeNum
    ELSE IF SerializeNum.val > MaxIter THEN R(Beyond, "None", SerializeNum.pos, FALSE)
    ELSE readElements(func, b, SerializeNum.pos, SerializeNum.val, <<>>, FALSE)

readTArray(func, b, p) == readTArray_of(func, b, readInt32(b, p))

\* the test of readBulkTArray, tell() != save_pos + 4 + len(array) * element_size,
\* written with a division so that no product leaves TLC's integers
SizeMismatch(told, save_pos, n, element_size) ==
    LET consumed == told - save_pos - 4
    IN  IF n = 0 THEN consumed # 0
        ELSE ~(consumed % n = 0 /\ consumed \div n = element_size)

\* mutant of readBulkTArray: the size test left out
readBulkTArray_Unchecked(func, b, p) ==
    LET element_size == readInt32(b, p)
        array == readTArray(func, b, element_size.pos)
    IN  IF Failed(element_size) THEN element_size ELSE array

\* readBulkTArray after element_size and array were read (save_pos is where
\* element_size ended), on a stream whose tell is its base stream's
readBulkTArray_test(element_size, array) ==
    IF Failed(element_size) THEN element_size
    ELSE IF Failed(array) THEN array
    ELSE IF SizeMismatch(array.pos, element_size.pos, Len(array.val), element_size.val)
    THEN R(IF Len(array.val) = 0 THEN "ZeroDivisionError" ELSE "ParserException",
           "None", array.pos, array.short)
    ELSE array

readBulkTArray_of(func, b, element_size) ==
    readBulkTArray_test(element_size, readTArray(func, b, element_size.pos))

readBulkTArray(func, b, p) == readBulkTArray_of(func, b, readInt32(b, p))

---------------------------------------------------------------------------
(* The mesh decoders *)

\* Versions.VER_UE4_SUPPORT_32BIT_STATIC_MESH_INDICES
VER_UE4_SUPPORT_32BIT_STATIC_MESH_INDICES == 277

\* GAME_UE4(x): the game tag of UE 4.x, ordered as x is
GAME_UE4(x) == 16777216 + x * 16

\* mutant of Reinterpret: the indices read from the reader itself, after the
\* bulk array, instead of a stream over the array's bytes
Reinterpret_OuterStream(b, is32bit, data, flag) ==
    IF Failed(flag) THEN flag
    ELSE IF Len(data.val) = 0
    THEN R("none", [indices16 |-> <<>>, indices32 |-> <<>>], flag.pos, data.short)
    ELSE \* the same reads, on b from the reader's cursor
         LET items == readElements(IF is32bit.val THEN "readUInt32" ELSE "readUInt16",
                                   b, flag.pos,
                                   Len(data.val) \div (IF is32bit.val THEN 4 ELSE 2),
                                   <<>>, FALSE)
         IN  IF Failed(items) THEN R(items.err, "None", items.pos, data.short)
             ELSE R("none",
                    [indices16 |-> IF is32bit.val THEN <<>> ELSE items.val,
                     indices32 |-> IF is32bit.val THEN items.val ELSE <<>>],
                    items.pos, data.short)

\* the two lists, items being what the reads of tr did
Indices(is32bit, data, flag, items) ==
    IF Failed(items) THEN R(items.err, "None", flag.pos, data.short)
    ELSE R("none",
           [indices16 |-> IF is32bit.val THEN <<>> ELSE items.val,
            indices32 |-> IF is32bit.val THEN items.val ELSE <<>>],
           flag.pos, data.short)

\* FRawStaticIndexBuffer, lines 21-35: data reinterpreted through
\* tr = BinaryStream(data), a stream of its own read from its start; b, the
\* reader's bytes, are not read and the reader's cursor stays at flag.pos
Reinterpret(b, is32bit, data, flag) ==
    IF Failed(flag) THEN flag
    ELSE IF Len(data.val) = 0
    THEN R("none", [indices16 |-> <<>>, indices32 |-> <<>>], flag.pos, data.short)
    ELSE Indices(is32bit, data, flag,
                 readElements(IF is32bit.val THEN "readUInt32" ELSE "readUInt16",
                              data.val, 0,
                              Len(data.val) \div (IF is32bit.val THEN 4 ELSE 2),
                              <<>>, FALSE))

\* FRawStaticIndexBuffer, lines 18-19: one more boolean from UE 4.25 on
IndexBufferFlag(b, game, is32bit, data) ==
    IF Failed(data) THEN data
    ELSE Reinterpret(b, is32bit, data,
                     IF game >= GAME_UE4(25) THEN readBool(b, data.pos)
                     ELSE R("none", "None", data.pos, FALSE))

\* FRawStaticIndexBuffer, line 17: data = bytearray(readBulkTArray(readInt8))
IndexBufferData(b, game, is32bit) ==
    IF Failed(is32bit) THEN is32bit
    ELSE IndexBufferFlag(b, game, is32bit, readBulkTArray("readInt8", b, is32bit.pos))

\* FRawStaticIndexBuffer, lines 13-14: before 32-bit indices were supported
Indices16(array) ==
    IF Failed(array) THEN array
    ELSE R("none", [indices16 |-> array.val, indices32 |-> <<>>], array.pos, array.short)

\* FRawStaticIndexBuffer(reader): val is [indices16, indices32]
FRawStaticIndexBuffer(b, p, version, game) ==
    IF version < VER_UE4_SUPPORT_32BIT_STATIC_MESH_INDICES
    THEN Indices16(readBulkTArray("readUInt16", b, p))
    ELSE IndexBufferData(b, game, readBool(b, p))

CDSF_AdjancencyData == 1
CDSF_MinLodData == 2
CDSF_ReversedIndexBuffer == 4
CDSF_RaytracingResources == 8

\* x & flag != 0 for a flag that is a power of two
HasBit(x, flag) == (x \div flag) % 2 = 1

\* FStripDataFlags(reader): the global and the class strip flags, a byte each
FStripDataFlags(b, p) ==
    LET GlobalStripFlags == readUChar(b, p)
        ClassStripFlags == readUChar(b, GlobalStripFlags.pos)
    IN  IF Failed(GlobalStripFlags) THEN GlobalStripFlags
        ELSE IF Failed(ClassStripFlags) THEN ClassStripFlags
        ELSE R("none",
               [GlobalStripFlags |-> GlobalStripFlags.val,
                ClassStripFlags |-> ClassStripFlags.val],
               ClassStripFlags.pos, FALSE)

isEditorDataStripped(flags) == HasBit(flags.GlobalStripFlags, 1)
isDataStrippedForServer(flags) == HasBit(flags.GlobalStripFlags, 2)
isClassDataStripped(flags, flag) == HasBit(flags.ClassStripFlags, flag)

\* A decode in progress: the cursor, the exception raised ("none" so far),
\* the sub-decoders invoked so far in order (trace), where each started
\* (marks) and what each returned (vals)
Begin(p) == [pos |-> p, err |-> "none", trace |-> <<>>, marks |-> <<>>, vals |-> <<>>]

\* the next statement, a sub-decoder with outcome r, unless one has raised
Run(d, name, r) ==
    IF d.err # "none" THEN d
    ELSE [pos |-> r.pos, err |-> r.err, trace |-> Append(d.trace, name),
          marks |-> Append(d.marks, d.pos), vals |-> Append(d.vals, r.val)]

\* what the sub-decoder name returned
Val(d, name) == d.vals[CHOOSE k \in 1..Len(d.trace) : d.trace[k] = name]

Raise(d, e) == IF d.err # "none" THEN d ELSE [d EXCEPT !.err = e]

\* the statements of the two constructors, each a sub-decoder at the cursor
RunStripFlags(b, d, name) == Run(d, name, FStripDataFlags(b, d.pos))
RunSections(b, d, name) == Run(d, name, readTArray("FStaticMeshSection", b, d.pos))
RunFloat(b, d, name) == Run(d, name, readFloat(b, d.pos))
RunBool(b, d, name) == Run(d, name, readBool(b, d.pos))
RunUInt32(b, d, name) == Run(d, name, readUInt32(b, d.pos))
RunOpaque(b, d, name) == Run(d, name, Opaque(b, d.pos))
RunIndexBuffer(b, d, name, version, game) ==
    Run(d, name, FRawStaticIndexBuffer(b, d.pos, version, game))
RunRawData(b, d, name) == Run(d, name, readBulkTArray("readUInt8", b, d.pos))

\* if cond: <statement>
IfIndexBuffer(cond, b, d, name, version, game) ==
    IF cond THEN RunIndexBuffer(b, d, name, version, game) ELSE d
IfRawData(cond, b, d, name) == IF cond THEN RunRawData(b, d, name) ELSE d

RECURSIVE Samplers(_, _, _)
\* FWeightedRandomSampler(reader), left times
Samplers(b, d, left) ==
    IF left = 0 THEN d
    ELSE Samplers(b, RunOpaque(b, d, "FWeightedRandomSampler"), left - 1)

\* serializeBuffer(reader), its statements from the innermost out: stripFlags
\* is self.stripFlags and sections is len(self.sections); the flags read into
\* the local strip_flags are not consulted
serializeBuffer(b, d, stripFlags, sections, version, game) ==
    Samplers(b,
      IfRawData(game >= GAME_UE4(25)
                   /\ ~isClassDataStripped(stripFlags, CDSF_RaytracingResources), b,
        IfIndexBuffer(~isClassDataStripped(stripFlags, CDSF_AdjancencyData), b,
          IfIndexBuffer(~isEditorDataStripped(stripFlags), b,
            IfIndexBuffer(~isClassDataStripped(stripFlags, CDSF_ReversedIndexBuffer), b,
              RunIndexBuffer(b,
                RunOpaque(b,
                  RunOpaque(b,
                    RunStripFlags(b, d, "strip_flags"),
                    "positionVertexBuffer"),
                  "vertexBuffer"),
                "indexBuffer", version, game),
              "reversedIndexBuffer", version, game),
            "wireframeIndexBuffer", version, game),
          "adjacencyIndexBuffer", version, game),
        "RawData"),
      sections + 1)

\* serializeBuffer_legacy(reader)
serializeBuffer_legacy(d) == Raise(d, "NotImplementedError")

\* FStaticMeshLODResources, lines 36-38
LOD_head(b, p) ==
    RunFloat(b,
      RunSections(b, RunStripFlags(b, Begin(p), "stripFlags"), "sections"),
      "maxDeviation")

\* lines 46-47
LOD_switches(b, d) == RunBool(b, RunBool(b, d, "is_lod_cooked_out"), "inlined")

\* mutant of LOD_body: is_lod_cooked_out not consulted
LOD_body_IgnoreCookedOut(b, d, version, game) ==
    IF d.err # "none" THEN d
    ELSE IF ~isDataStrippedForServer(Val(d, "stripFlags"))
    THEN IF Val(d, "inlined")
         THEN serializeBuffer(b, d, Val(d, "stripFlags"), Len(Val(d, "sections")),
                              version, game)
         ELSE Raise(d, "NotImplementedError")
    ELSE d

\* lines 48-52
LOD_body(b, d, version, game) ==
    IF d.err # "none" THEN d
    ELSE IF ~isDataStrippedForServer(Val(d, "stripFlags")) /\ ~Val(d, "is_lod_cooked_out")
    THEN IF Val(d, "inlined")
         THEN serializeBuffer(b, d, Val(d, "stripFlags"), Len(Val(d, "sections")),
                              version, game)
         ELSE Raise(d, "NotImplementedError")
    ELSE d

\* lines 54-56
LOD_sizes(b, d) ==
    RunUInt32(b,
      RunUInt32(b, RunUInt32(b, d, "SerializedBuffersSize"), "DepthOnlyIBSize"),
      "ReversedIBsSize")

\* lines 40-56, d the decode after maxDeviation
LOD_rest(b, d, version, game) ==
    IF d.err # "none" THEN d
    ELSE IF game < GAME_UE4(23)
    THEN IF ~isDataStrippedForServer(Val(d, "stripFlags"))
            /\ ~isClassDataStripped(Val(d, "stripFlags"), CDSF_MinLodData)
         THEN serializeBuffer_legacy(d)
         ELSE d
    ELSE LOD_sizes(b, LOD_body(b, LOD_switches(b, d), version, game))

\* FStaticMeshLODResources(reader): the decode as [pos, err, trace, marks, vals]
FStaticMeshLODResources(b, p, version, game) ==
    LOD_rest(b, LOD_head(b, p), version, game)

---------------------------------------------------------------------------
(* The stream as a state machine: one action per reader *)

\* what an action leaves behind: the operation, where it started, its outcome
Finish(op, r) ==
    /\ r.err # Beyond
    /\ ret' = [op |-> op, start |-> pos, r |-> r]
    /\ pos' = r.pos
    /\ UNCHANGED <<base, size, fake_size, first, rebound, env, src>>

\* read(length): length >= 0 goes through self.readBytes, which __init__
\* bound to the stream the object was built on; read() reads base_stream
read(length) ==
    IF length >= 0 /\ rebound
    THEN LET rd == RawRead(first.bytes, first.pos, length)
         IN  /\ first' = [first EXCEPT !.pos = rd.pos]
             /\ ret' = [op |-> "read", start |-> pos,
                        r |-> R("none", rd.bytes, pos, rd.short)]
             /\ UNCHANGED <<base, pos, size, fake_size, rebound, env, src>>
    ELSE LET rd == IF length >= 0 THEN RawRead(base, pos, length)
                   ELSE RawRead(base, pos, IF pos < Len(base) THEN Len(base) - pos ELSE 0)
         IN  /\ Finish("read", R("none", rd.bytes, rd.pos, rd.short))

Read == \E length \in -1..MaxRead : read(length)

ReadByte == Finish("readByte", readByte(base, pos))

ReadByteToInt == Finish("readByteToInt", readByteToInt(base, pos, 1))

ReadInt8 == Finish("readInt8", readInt8(base, pos))

ReadUInt8 == Finish("readUInt8", readUInt8(base, pos))

\* the readers that are one call of unpack
FixedReaders ==
    {"readChar", "readUChar", "readSByte", "readInt16", "readUInt16", "readInt32",
     "readUInt32", "readInt64", "readUInt64", "readFloat", "readDouble"}

Fixed(op, b, p) ==
    CASE op = "readChar" -> readChar(b, p)
      [] op = "readUChar" -> readUChar(b, p)
      [] op = "readSByte" -> readSByte(b, p)
      [] op = "readInt16" -> readInt16(b, p)
      [] op = "readUInt16" -> readUInt16(b, p)
      [] op = "readInt32" -> readInt32(b, p)
      [] op = "readUInt32" -> readUInt32(b, p)
      [] op = "readInt64" -> readInt64(b, p)
      [] op = "readUInt64" -> readUInt64(b, p)
      [] op = "readFloat" -> readFloat(b, p)
      [] op = "readDouble" -> readDouble(b, p)

ReadFixed == \E op \in FixedReaders : Finish(op, Fixed(op, base, pos))

ReadBool == Finish("readBool", readBool(base, pos))

ReadFlag == Finish("readFlag", readFlag(base, pos))

Read7BitEncodedInt == Finish("read7BitEncodedInt", read7BitEncodedInt(base, pos))

ReadString == Finish("readString", readString(base, pos))

ReadFString == Finish("readFString", readFString(base, pos))

ReadFName == Finish("readFName", readFName(base, pos, env.NameMap))

\* found: whether the package context can materialize the object
ReadObject ==
    \E found \in BOOLEAN :
        /\ ret' = [op |-> "readObject", start |-> pos, r |-> readObject(base, pos, found),
                   found |-> found]
        /\ pos' = readObject(base, pos, found).pos
        /\ UNCHANGED <<base, size, fake_size, first, rebound, env, src>>

---------------------------------------------------------------------------
(* Spec: a stream over a 4-byte header and a short payload, cut anywhere *)

\* int32 -> its four little-endian bytes (two's complement)
EncInt32(v) == [i \in 1..4 |-> (v \div 256 ^ (i - 1)) % 256]

\* the two bytes of U+00E9: valid UTF-8 only as the pair C3 A9
PayloadBytes == {195, 169}

HeaderValues == {INT32_MIN} \cup (-(MaxPayload \div 2 + 1) .. MaxPayload)

PrimInputs ==
    UNION {Prefixes(EncInt32(L) \o pl) :
             L \in HeaderValues, pl \in SeqsUpTo(PayloadBytes, MaxPayload)}

NameTable(n) == [i \in 1..n |-> <<"name", i>>]

NoRet == [op |-> "init", start |-> 0, r |-> R("none", "None", 0, FALSE)]

\* BinaryStream(bytes): size is len(fp), tell and readBytes are the stream's own
Construct(b) ==
    /\ base = b
    /\ pos = 0
    /\ size = Len(b)
    /\ fake_size = NoAttr
    /\ first = [bytes |-> <<>>, pos |-> 0]
    /\ rebound = FALSE
    /\ ret = NoRet

Init ==
    /\ \E b \in PrimInputs : Construct(b)
    /\ env = [version |-> 0, game |-> 0, NameMap |-> <<>>]
    /\ src = "bytes"

Next ==
    \/ Read
    \/ ReadByte
    \/ ReadByteToInt
    \/ ReadInt8
    \/ ReadUInt8
    \/ ReadFixed
    \/ ReadBool
    \/ ReadFlag
    \/ Read7BitEncodedInt
    \/ ReadString
    \/ ReadFString

Spec == Init /\ [][Next]_vars

---------------------------------------------------------------------------
(* SpecRef: a stream over a name reference / a package index, cut anywhere *)

\* the instance numbers and the indices the inputs carry
Numbers == {0, 1, 258}

RefIndices == -2 .. MaxNames + 1

\* src: the index i and the number n the bytes encode, and how many of the
\* eight bytes the stream holds
InitRef ==
    /\ \E i \in RefIndices, n \in Numbers, cut \in 0..8 :
         /\ src = [i |-> i, n |-> n, cut |-> cut]
         /\ Construct(SubSeq(EncInt32(i) \o EncInt32(n), 1, cut))
    /\ \E n \in 0..MaxNames : env = [version |-> 0, game |-> 0, NameMap |-> NameTable(n)]

NextRef ==
    \/ ReadFName
    \/ ReadObject
    \/ ReadInt8

SpecRef == InitRef /\ [][NextRef]_vars

---------------------------------------------------------------------------
(* SpecBulk: a stream over a bulk array: declared size, count, elements *)

\* most elements of an input array
MaxCount == 2

\* v -> its w little-endian bytes (two's complement)
EncLE(v, w) == [i \in 1..w |-> (v \div 256 ^ (i - 1)) % 256]

RECURSIVE Concat(_)
Concat(ss) == IF ss = <<>> THEN <<>> ELSE Head(ss) \o Concat(Tail(ss))

BulkFuncs == {"readUInt8", "readUInt16", "readInt32"}

\* bytes one call of the element decoder consumes
ElementBytes(func) ==
    CASE func \in {"readInt8", "readUInt8"} -> 1
      [] func = "readUInt16" -> 2
      [] func = "readInt32" -> 4

\* element values the inputs carry
ElementValues(func) ==
    CASE func \in {"readInt8", "readUInt8"} -> {0, 255}
      [] func = "readUInt16" -> {1, 65535}
      [] func = "readInt32" -> {-2, 16909060}

DeclaredSizes == {0, 1, 2, 4}

EncBulk(declared, func, elems) ==
    EncInt32(declared) \o EncInt32(Len(elems))
        \o Concat([k \in 1..Len(elems) |-> EncLE(elems[k], ElementBytes(func))])

\* src: the element decoder the array was written for, the declared element
\* size and the elements
InitBulk ==
    /\ \E func \in BulkFuncs, declared \in DeclaredSizes :
         \E elems \in SeqsUpTo(ElementValues(func), MaxCount) :
            /\ src = [func |-> func, declared |-> declared, elems |-> elems]
            /\ Construct(EncBulk(declared, func, elems))
    /\ env = [version |-> 0, game |-> 0, NameMap |-> <<>>]

ReadTArray ==
    \E func \in BulkFuncs :
        /\ readTArray(func, base, pos).err # Beyond
        /\ ret' = [op |-> "readTArray", start |-> pos, r |-> readTArray(func, base, pos),
                   func |-> func]
        /\ pos' = readTArray(func, base, pos).pos
        /\ UNCHANGED <<base, size, fake_size, first, rebound, env, src>>

\* self.tell is the base stream's tell as long as change_stream was not called
ReadBulkTArray ==
    \E func \in BulkFuncs :
        /\ ~rebound
        /\ readBulkTArray(func, base, pos).err # Beyond
        /\ ret' = [op |-> "readBulkTArray", start |-> pos,
                   r |-> readBulkTArray(func, base, pos), func |-> func]
        /\ pos' = readBulkTArray(func, base, pos).pos
        /\ UNCHANGED <<base, size, fake_size, first, rebound, env, src>>

NextBulk ==
    \/ ReadBulkTArray
    \/ ReadTArray
    \/ ReadFixed

SpecBulk == InitBulk /\ [][NextBulk]_vars

---------------------------------------------------------------------------
(* SpecSeg: a stream whose source is replaced by change_stream *)

\* longest source of a segment
MaxSegLen == 2
\* most calls of change_stream in a run
MaxChanges == 2

SegBytes == {7}

SegSources == SeqsUpTo(SegBytes, MaxSegLen)

\* change_stream(fp): kind is the type of fp; a str is the path of a file
\* holding `bytes`, a stream is a BinaryStream over `bytes` whose cursor
\* stands at fp_pos.  Only the stream branch assigns fake_size.  self.tell
\* and self.readBytes keep the stream __init__ bound them to.
change_stream(kind, bytes, fp_pos) ==
    /\ base' = bytes
    /\ pos' = IF kind = "stream" THEN fp_pos ELSE 0
    /\ size' = Len(bytes)
    /\ fake_size' = IF kind = "stream" THEN size + Len(bytes) ELSE fake_size
    /\ first' = IF rebound THEN first ELSE [bytes |-> base, pos |-> pos]
    /\ rebound' = TRUE

\* src: the size A of the first source (self.size when change_stream is
\* first called), the size B and the kind of the last source bound, and
\* the number of change_stream calls
ChangeStream ==
    \E kind \in {"str", "bytes", "stream"}, bytes \in SegSources :
        \E fp_pos \in 0..Len(bytes) :
            /\ src.changes < MaxChanges
            /\ kind # "stream" => fp_pos = 0
            /\ change_stream(kind, bytes, fp_pos)
            /\ src' = [A |-> IF src.changes = 0 THEN size ELSE src.A,
                       B |-> Len(bytes), kind |-> kind, fp_pos |-> fp_pos,
                       changes |-> src.changes + 1]
            /\ ret' = [op |-> "change_stream", start |-> pos,
                       r |-> R("none", "None", fp_pos, FALSE)]
            /\ UNCHANGED env

\* tellfake(): AttributeError while fake_size was never assigned
tellfake ==
    IF fake_size = NoAttr THEN R("AttributeError", "None", pos, FALSE)
    ELSE R("none", (fake_size - size) + pos, pos, FALSE)

Tellfake == Finish("tellfake", tellfake)

\* seek(offset, whence) with a non-negative offset: from the start (0), from
\* the cursor (1, the default) or from the end (2); returns the new cursor
seek(offset, whence) ==
    LET to == CASE whence = 0 -> offset
                [] whence = 1 -> pos + offset
                [] whence = 2 -> Len(base) + offset
    IN  R("none", to, to, FALSE)

\* the cursor may pass the end of the source; the model follows it up to
\* MaxRead bytes past the end
Seek == \E offset \in 0..MaxRead, whence \in {0, 1, 2} :
            /\ seek(offset, whence).pos <= Len(base) + MaxRead
            /\ Finish("seek", seek(offset, whence))

InitSeg ==
    /\ \E b \in SegSources : Construct(b)
    /\ env = [version |-> 0, game |-> 0, NameMap |-> <<>>]
    /\ src = [A |-> 0, B |-> 0, kind |-> "none", fp_pos |-> 0, changes |-> 0]

NextSeg ==
    \/ ChangeStream
    \/ Tellfake
    \/ Seek
    \/ Read
    \/ ReadByte
    \/ ReadUInt8

SpecSeg == InitSeg /\ [][NextSeg]_vars

---------------------------------------------------------------------------
(* SpecIdx: a stream over an index buffer *)

\* index values the inputs carry, per element width
IndexValues(is32bit) == IF is32bit THEN {3, 16909060} ELSE {3, 65535}

\* the bytes after the buffer
IdxTails == {<<>>, <<9, 9, 9, 9>>}

\* an index buffer as a cooked asset holds it: the width flag, the bulk array
\* of the indices' bytes and, from UE 4.25 on, one more boolean
EncIndexBuffer(is32bit, indices, game) ==
    EncInt32(IF is32bit THEN 1 ELSE 0)
        \o EncInt32(1)
        \o EncInt32(Len(indices) * (IF is32bit THEN 4 ELSE 2))
        \o Concat([k \in 1..Len(indices) |-> EncLE(indices[k], IF is32bit THEN 4 ELSE 2)])
        \o (IF game >= GAME_UE4(25) THEN EncInt32(0) ELSE <<>>)

\* before 32-bit indices were supported: a bulk array of 16-bit indices
EncIndexBuffer16(indices) == EncBulk(2, "readUInt16", indices)

InitIdx ==
    \E version \in {VER_UE4_SUPPORT_32BIT_STATIC_MESH_INDICES - 1,
                    VER_UE4_SUPPORT_32BIT_STATIC_MESH_INDICES},
       game \in {GAME_UE4(24), GAME_UE4(25)},
       is32bit \in BOOLEAN, tail \in IdxTails :
        \E indices \in SeqsUpTo(IndexValues(is32bit), MaxCount) :
            /\ src = [is32bit |-> is32bit, indices |-> indices]
            /\ env = [version |-> version, game |-> game, NameMap |-> <<>>]
            /\ Construct((IF version < VER_UE4_SUPPORT_32BIT_STATIC_MESH_INDICES
                          THEN EncIndexBuffer16(indices)
                          ELSE EncIndexBuffer(is32bit, indices, game)) \o tail)

DecodeIndexBuffer ==
    \E r \in {FRawStaticIndexBuffer(base, pos, env.version, env.game)} :
        Finish("FRawStaticIndexBuffer", r)

NextIdx ==
    \/ DecodeIndexBuffer
    \/ ReadBool
    \/ ReadUInt8

SpecIdx == InitIdx /\ [][NextIdx]_vars

---------------------------------------------------------------------------
(* SpecLOD: a stream over the resources of one LOD *)

\* most sections of a LOD
MaxSections == 1

\* a 16-bit index buffer holding the one index tag
EncTagged(tag, game) == EncIndexBuffer(FALSE, <<tag>>, game)

\* the bytes of one of the structures that are not decoded further
OpaqueBytes(tag) == [k \in 1..OpaqueLen |-> tag]

\* the buffer body as a cooked asset holds it: its own strip flags G, C decide
\* which of the optional blocks were written
EncBody(G, C, sections, game) ==
    <<G, C>> \o OpaqueBytes(1) \o OpaqueBytes(2)
        \o EncTagged(10, game)
        \o (IF ~HasBit(C, CDSF_ReversedIndexBuffer) THEN EncTagged(11, game) ELSE <<>>)
        \o (IF ~HasBit(G, 1) THEN EncTagged(12, game) ELSE <<>>)
        \o (IF ~HasBit(C, CDSF_AdjancencyData) THEN EncTagged(13, game) ELSE <<>>)
        \o (IF game >= GAME_UE4(25) /\ ~HasBit(C, CDSF_RaytracingResources)
            THEN EncBulk(1, "readUInt8", <<7>>) ELSE <<>>)
        \o Concat([k \in 1..(sections + 1) |-> OpaqueBytes(5)])

\* 1.0 as a float32
OneFloat == <<0, 0, 128, 63>>

EncSizes == EncInt32(1) \o EncInt32(2) \o EncInt32(3)

\* what precedes the body
EncLODHead(in, game) ==
    <<in.G, in.C>> \o EncInt32(in.sections)
        \o Concat([k \in 1..in.sections |-> OpaqueBytes(6)])
        \o OneFloat
        \o (IF game >= GAME_UE4(23)
            THEN EncInt32(IF in.cooked THEN 1 ELSE 0) \o EncInt32(IF in.inlined THEN 1 ELSE 0)
            ELSE <<>>)

\* the body is in the stream when it is not stripped, not cooked out and inlined
BodyWritten(in, game) ==
    /\ game >= GAME_UE4(23)
    /\ ~HasBit(in.G, 2) /\ ~in.cooked /\ in.inlined

EncLOD(in, game) ==
    EncLODHead(in, game)
        \o (IF BodyWritten(in, game) THEN EncBody(in.bodyG, in.bodyC, in.sections, game)
            ELSE <<>>)
        \o EncSizes

LODInputs ==
    [G : {0, 1, 2}, C : {0, 1, 2, 4, 8}, bodyG : {0, 1}, bodyC : {0, 4, 9},
     sections : 0..MaxSections, cooked : BOOLEAN, inlined : BOOLEAN]

InitLOD ==
    \E in \in LODInputs, game \in {GAME_UE4(22), GAME_UE4(24), GAME_UE4(25)} :
        /\ src = in
        /\ env = [version |-> VER_UE4_SUPPORT_32BIT_STATIC_MESH_INDICES,
                  game |-> game, NameMap |-> <<>>]
        /\ Construct(EncLOD(in, game))

\* FStaticMeshLODResources(reader) on the stream
DecodeLOD ==
    \E d \in {FStaticMeshLODResources(base, pos, env.version, env.game)} :
        /\ d.err # Beyond
        /\ ret' = [op |-> "FStaticMeshLODResources", start |-> pos,
                   r |-> R(d.err, "None", d.pos, FALSE),
                   trace |-> d.trace, marks |-> d.marks]
        /\ pos' = d.pos
        /\ UNCHANGED <<base, size, fake_size, first, rebound, env, src>>

\* reader.seek(offset, 0) to a place inside the stream
SeekWithin ==
    \E offset \in {0, 2} :
        /\ offset <= Len(base)
        /\ ret' = [op |-> "seek", start |-> pos, r |-> R("none", "None", offset, FALSE)]
        /\ pos' = offset
        /\ UNCHANGED <<base, size, fake_size, first, rebound, env, src>>

NextLOD ==
    \/ DecodeLOD
    \/ SeekWithin
    \/ ReadBool

SpecLOD == InitLOD /\ [][NextLOD]_vars

---------------------------------------------------------------------------
(* BinaryStream: the writers *)

\* Python values handed to a writer: [type |-> "int" | "bool" | "bytes" | "str",
\* n |-> the integer (a bool's is 0 or 1), s |-> the bytes or the code points]
PyInt(n) == [type |-> "int", n |-> n, s |-> <<>>]
PyBool(x) == [type |-> "bool", n |-> IF x THEN 1 ELSE 0, s |-> <<>>]
PyBytes(bs) == [type |-> "bytes", n |-> 0, s |-> bs]
PyStr(cs) == [type |-> "str", n |-> 0, s |-> cs]

\* the w little-endian bytes of an integer of TLC (two's complement)
EncInt(n, w) ==
    [i \in 1..w |-> IF i <= 4 THEN (n \div 256 ^ (i - 1)) % 256
                    ELSE IF n < 0 THEN 255 ELSE 0]

\* the range struct.pack accepts for an integer format, as far as the
\* integers of TLC reach
PackRange(fmt, n) ==
    CASE fmt = "b" -> -128 <= n /\ n <= 127
      [] fmt = "B" -> 0 <= n /\ n <= 255
      [] fmt = "h" -> -32768 <= n /\ n <= 32767
      [] fmt = "H" -> 0 <= n /\ n <= 65535
      [] fmt \in {"i", "q"} -> TRUE
      [] fmt \in {"I", "Q"} -> 0 <= n

Truthy(value) ==
    CASE value.type \in {"int", "bool"} -> value.n # 0
      [] value.type \in {"bytes", "str"} -> value.s # <<>>

\* struct.pack(fmt, value): [err, bytes].  'c' takes a bytes object of
\* length 1, '?' any object (its truth value, one byte), the integer formats
\* an int (a bool is an int) in range; 'C' is no format character.
StructPack(fmt, value) ==
    LET ok(bs) == [err |-> "none", bytes |-> bs]
        bad == [err |-> "struct.error", bytes |-> <<>>]
    IN  CASE fmt = "c" ->
               IF value.type = "bytes" /\ Len(value.s) = 1 THEN ok(value.s) ELSE bad
          [] fmt = "?" -> ok(<<IF Truthy(value) THEN 1 ELSE 0>>)
          [] fmt \in {"b", "B", "h", "H", "i", "I", "q", "Q"} ->
               IF value.type \in {"int", "bool"} /\ PackRange(fmt, value.n)
               THEN ok(EncInt(value.n, calcsize(fmt))) ELSE bad
          [] OTHER -> bad

\* struct.pack(str(n) + 's', value): the n bytes of a bytes object
StructPack_s(n, value) ==
    IF value.type = "bytes" /\ Len(value.s) = n
    THEN [err |-> "none", bytes |-> value.s]
    ELSE [err |-> "struct.error", bytes |-> <<>>]

\* BytesIO.write(bs) at cursor p
Overwrite(b, p, bs) ==
    LET pad == [i \in 1..(p - Len(b)) |-> 0]
    IN  SubSeq(b \o pad, 1, p) \o bs \o SubSeq(b, p + Len(bs) + 1, Len(b))

\* the stream [base, pos, size] after writeBytes(bs)
writeBytes(st, bs) ==
    [base |-> Overwrite(st.base, st.pos, bs), pos |-> st.pos + Len(bs),
     size |-> st.size + Len(bs)]

\* pack(fmt, data): [err, st]
pack(st, fmt, value) ==
    LET pk == StructPack(fmt, value)
    IN  IF pk.err # "none" THEN [err |-> pk.err, st |-> st]
        ELSE [err |-> "none", st |-> writeBytes(st, pk.bytes)]

writeChar(st, value) == pack(st, "c", value)
writeUChar(st, value) == pack(st, "C", value)
writeBool(st, value) == pack(st, "?", value)
writeInt16(st, value) == pack(st, "h", value)
writeUInt16(st, value) == pack(st, "H", value)
writeInt32(st, value) == pack(st, "i", value)
writeUInt32(st, value) == pack(st, "I", value)
writeInt64(st, value) == pack(st, "q", value)
writeUInt64(st, value) == pack(st, "Q", value)

\* writeString: the length as a uint16, then the bytes; len() raises for an
\* int or a bool
writeString(st, value) ==
    IF value.type \in {"int", "bool"} THEN [err |-> "TypeError", st |-> st]
    ELSE LET length == Len(value.s)
             w == writeUInt16(st, PyInt(length))
             pk == StructPack_s(length, value)
         IN  IF w.err # "none" THEN w
             ELSE IF pk.err # "none" THEN [err |-> pk.err, st |-> w.st]
             ELSE [err |-> "none", st |-> writeBytes(w.st, pk.bytes)]

Writers ==
    {"writeChar", "writeUChar", "writeBool", "writeInt16", "writeUInt16",
     "writeInt32", "writeUInt32", "writeInt64", "writeUInt64", "writeString"}

Write(op, st, value) ==
    CASE op = "writeChar" -> writeChar(st, value)
      [] op = "writeUChar" -> writeUChar(st, value)
      [] op = "writeBool" -> writeBool(st, value)
      [] op = "writeInt16" -> writeInt16(st, value)
      [] op = "writeUInt16" -> writeUInt16(st, value)
      [] op = "writeInt32" -> writeInt32(st, value)
      [] op = "writeUInt32" -> writeUInt32(st, value)
      [] op = "writeInt64" -> writeInt64(st, value)
      [] op = "writeUInt64" -> writeUInt64(st, value)
      [] op = "writeString" -> writeString(st, value)

---------------------------------------------------------------------------
(* SpecRT: values written to an empty stream and read back *)

\* most writes in a run
MaxWrites == 1

INT32_MAX == 2147483647

\* the values of each scalar kind the writers are given: the ends of the
\* kind's range (as far as TLC's integers reach) and values between
InRangeValues(op) ==
    CASE op = "writeChar" -> {PyInt(-128), PyInt(65), PyInt(127), PyBytes(<<65>>)}
      [] op = "writeUChar" -> {PyInt(0), PyInt(65), PyInt(255)}
      [] op = "writeBool" -> {PyBool(FALSE), PyBool(TRUE)}
      [] op = "writeInt16" -> {PyInt(-32768), PyInt(-2), PyInt(0), PyInt(258), PyInt(32767)}
      [] op = "writeUInt16" -> {PyInt(0), PyInt(258), PyInt(65535)}
      [] op = "writeInt32" -> {PyInt(INT32_MIN), PyInt(-2), PyInt(0), PyInt(16909060), PyInt(INT32_MAX)}
      [] op = "writeUInt32" -> {PyInt(0), PyInt(16909060), PyInt(INT32_MAX)}
      [] op = "writeInt64" -> {PyInt(INT32_MIN), PyInt(-2), PyInt(0), PyInt(16909060), PyInt(INT32_MAX)}
      [] op = "writeUInt64" -> {PyInt(0), PyInt(16909060), PyInt(INT32_MAX)}
      [] op = "writeString" -> {PyStr(<<>>), PyStr(<<65>>), PyStr(<<65, 66>>),
                                PyBytes(<<>>), PyBytes(<<65>>), PyBytes(<<65, 66>>)}

\* the reader of the kind a writer writes
Matching(op) ==
    CASE op = "writeChar" -> "readChar"
      [] op = "writeUChar" -> "readUChar"
      [] op = "writeBool" -> "readBool"
      [] op = "writeInt16" -> "readInt16"
      [] op = "writeUInt16" -> "readUInt16"
      [] op = "writeInt32" -> "readInt32"
      [] op = "writeUInt32" -> "readUInt32"
      [] op = "writeInt64" -> "readInt64"
      [] op = "writeUInt64" -> "readUInt64"
      [] op = "writeString" -> "readString"

\* src: the first write of the run (writer, value, outcome, the cursor it
\* started at and the number of bytes it wrote) and the number of writes
DoWrite ==
    \E op \in Writers :
        \E value \in InRangeValues(op) :
            LET w == Write(op, [base |-> base, pos |-> pos, size |-> size], value)
            IN  /\ src.writes < MaxWrites
                /\ base' = w.st.base
                /\ pos' = w.st.pos
                /\ size' = w.st.size
                /\ ret' = [op |-> op, start |-> pos,
                           r |-> R(w.err, "None", w.st.pos, FALSE)]
                /\ src' = IF src.writes > 0 THEN [src EXCEPT !.writes = @ + 1]
                          ELSE [writes |-> 1, op |-> op, value |-> value,
                                err |-> w.err, at |-> pos, len |-> w.st.pos - pos]
                /\ UNCHANGED <<fake_size, first, rebound, env>>

InitRT ==
    /\ Construct(<<>>)
    /\ env = [version |-> 0, game |-> 0, NameMap |-> <<>>]
    /\ src = [writes |-> 0, op |-> "none", value |-> PyInt(0), err |-> "none",
              at |-> 0, len |-> 0]

NextRT ==
    \/ DoWrite
    \/ Seek
    \/ ReadFixed
    \/ ReadBool
    \/ ReadString

SpecRT == InitRT /\ [][NextRT]_vars

---------------------------------------------------------------------------
(* Claims about the primitive readers (Spec) *)

\* C1 (as claimed): the cursor stays within [0, size], and a read that gets
\* fewer bytes than it asked for raises: no reader returns a value built
\* from a short read.
C1_ShortReadsFail ==
    /\ 0 <= pos /\ pos <= size
    /\ ret.op # "init" /\ ret.r.short => Failed(ret.r)

\* C5 (as claimed): readFString reads a 4-byte signed length L; L > 0:
\* consumes exactly L bytes and returns the first L-1 decoded as UTF-8;
\* L = 0: consumes nothing more and returns ""; L < 0, L # INT32_MIN:
\* consumes exactly -L 16-bit units and returns the first -L-1 of them, one
\* character per unit; L = INT32_MIN: raises without reading a payload.  A
\* normal return is held to these; an undecodable payload may raise.
C5_ReadFString ==
    ret.op = "readFString" /\ Len(base) >= ret.start + 4 =>
        LET L == SignedValue(SubSeq(base, ret.start + 1, ret.start + 4))
            from == ret.start + 4
            r == ret.r
        IN  /\ L = INT32_MIN => r.err = "Exception" /\ r.pos = from
            /\ L = 0 => ~Failed(r) /\ r.val = <<>> /\ r.pos = from
            /\ L > 0 /\ ~Failed(r) =>
                 /\ r.pos = from + L
                 /\ r.val = Utf8Decode(SubSeq(base, from + 1, from + L - 1)).chars
            /\ L < 0 /\ L # INT32_MIN /\ ~Failed(r) =>
                 /\ r.pos = from + 2 * (-L)
                 /\ Len(r.val) = -L - 1
                 /\ \A k \in 1..(-L - 1) :
                      r.val[k] = base[from + 2 * k - 1] + 256 * base[from + 2 * k]

---------------------------------------------------------------------------
(* Claims about names and object references (SpecRef) *)

\* C8: readObject reads one package index; for index 0 it returns None
\* without calling findObject; for any other index it calls findObject
\* exactly once and returns what findObject answered, and when that is None
\* it warns and returns None without raising; the cursor ends just past the
\* index.
C8_ReadObject ==
    ret.op = "readObject" /\ ret.start = 0 /\ src.cut >= 4 =>
        /\ ~Failed(ret.r)
        /\ ret.r.pos = 4
        /\ src.i = 0 => ret.r.calls = 0 /\ ret.r.val = "None" /\ ~ret.r.warned
        /\ src.i # 0 =>
             /\ ret.r.calls = 1
             /\ ret.r.val = IF ret.found THEN [object |-> src.i] ELSE "None"
             /\ ret.r.warned = ~ret.found

\* a non-null index whose object cannot be materialized
C8_Witness ==
    /\ ret.op = "readObject" /\ ret.start = 0 /\ src.cut >= 4
    /\ src.i < 0 /\ ~ret.found /\ ret.r.warned /\ ret.r.val = "None"

\* C9: readFName reads two 4-byte integers (index i, number n) and succeeds
\* exactly when 0 <= i < len(name table); on success the name carries
\* table[i], i and n; for every other i it raises an error whose message
\* holds i and the table length; it never returns a default name.
C9_ReadFName ==
    ret.op = "readFName" /\ ret.start = 0 =>
        LET r == ret.r
            inRange == 0 <= src.i /\ src.i < Len(env.NameMap)
        IN  /\ ~Failed(r) <=> src.cut = 8 /\ inRange
            /\ ~Failed(r) =>
                 r.val = [string |-> env.NameMap[src.i + 1], Index |-> src.i,
                          Number |-> src.n]
            /\ src.cut = 8 /\ ~inRange =>
                 r.err = "IndexError" /\ r.val = [msg |-> <<src.i, Len(env.NameMap)>>]

\* an index equal to the table length is refused
C9_Witness ==
    /\ ret.op = "readFName" /\ ret.start = 0 /\ src.cut = 8
    /\ src.i = Len(env.NameMap) /\ src.i > 0
    /\ ret.r.err = "IndexError"

\* a name resolved from a non-empty table
C9_WitnessResolved ==
    /\ ret.op = "readFName" /\ ret.start = 0 /\ ~Failed(ret.r)
    /\ ret.r.val.Index = 1 /\ ret.r.val.Number = 258

---------------------------------------------------------------------------
(* Claims about bulk arrays (SpecBulk) *)

\* the case of C2: the array is read from its start with the decoder it was
\* written for
BulkCase == ret.op = "readBulkTArray" /\ ret.start = 0 /\ ret.func = src.func

BulkReturned ==
    /\ ~Failed(ret.r)
    /\ ret.r.val = src.elems
    /\ ret.r.pos = 4 + 4 + Len(src.elems) * ElementBytes(src.func)

\* C2 (as claimed): over an array of count elements of `size` bytes each,
\* readBulkTArray raises a size mismatch when the declared element size
\* differs from size, and otherwise returns the count elements in order
\* after consuming 4 + 4 + count * size bytes.
C2_AsClaimed ==
    BulkCase =>
        IF src.declared # ElementBytes(src.func)
        THEN ret.r.err = "ParserException"
        ELSE BulkReturned

\* C2 (amended): the same for count >= 1; an empty array (count = 0) is
\* returned after 8 bytes whatever element size is declared.
C2_BulkTArray ==
    BulkCase =>
        IF src.declared # ElementBytes(src.func) /\ Len(src.elems) >= 1
        THEN ret.r.err = "ParserException"
        ELSE BulkReturned

\* a size mismatch over a full array is refused
C2_Witness ==
    /\ BulkCase /\ Len(src.elems) = 2 /\ src.declared = 4 /\ src.func = "readUInt16"
    /\ ret.r.err = "ParserException"

\* two distinct elements come back in their order
C2_WitnessOrder ==
    /\ BulkCase /\ BulkReturned /\ Len(src.elems) = 2 /\ src.elems[1] # src.elems[2]

---------------------------------------------------------------------------
(* Claims about the segmented stream (SpecSeg) *)

\* C3 (as claimed): after change_stream bound a second source of size B to
\* a stream over a first source of size A (a byte buffer, a file path, or a
\* stream positioned at its start), the fake size is A + B and tellfake()
\* is A plus the physical cursor, at the start of the segment and after any
\* reads and seeks in it.
C3_SegmentedAddressing ==
    src.changes = 1 /\ src.fp_pos = 0 =>
        /\ fake_size = src.A + src.B
        /\ ret.op = "tellfake" => ~Failed(ret.r) /\ ret.r.val = src.A + pos

\* what holds of the code: the same, for a second source given as a stream
C3_StreamSource ==
    src.changes = 1 /\ src.fp_pos = 0 /\ src.kind = "stream" =>
        /\ fake_size = src.A + src.B
        /\ ret.op = "tellfake" => ~Failed(ret.r) /\ ret.r.val = src.A + pos

C3_StreamWitness ==
    /\ src.changes = 1 /\ src.kind = "stream" /\ src.A = 2 /\ src.B = 2
    /\ ret.op = "tellfake" /\ pos = 1 /\ ret.r.val = 3

---------------------------------------------------------------------------
(* Claims about the writers (SpecRT) *)

\* the Python type of what a reader returns
ReturnType(op) ==
    CASE op = "readString" -> "str"
      [] op = "readBool" -> "bool"
      [] OTHER -> "int"

\* Python's ==: values of different types differ (b"A" != 65, b"A" != "A")
SameValue(value, op, got) ==
    IF value.type # ReturnType(op) THEN FALSE
    ELSE CASE value.type = "int" -> got = value.n
           [] value.type = "bool" -> got = (value.n = 1)
           [] value.type = "str" -> got = value.s

\* the first value written is read back from where it was written with its
\* kind's reader
ReadBackCase ==
    src.writes >= 1 /\ ret.op = Matching(src.op) /\ ret.start = src.at

\* C4 (as claimed): for each scalar kind and every in-range value v, the
\* kind's writer writes v, and the matching reader, reading from the start
\* of the bytes written, returns v and consumes exactly those bytes.
C4_RoundTrip ==
    /\ src.writes >= 1 => src.err = "none"
    /\ ReadBackCase =>
         /\ ~Failed(ret.r)
         /\ SameValue(src.value, ret.op, ret.r.val)
         /\ ret.r.pos = src.at + src.len

IntegerWriters ==
    {"writeInt16", "writeUInt16", "writeInt32", "writeUInt32", "writeInt64",
     "writeUInt64"}

\* what holds of the code: the 16/32/64-bit integers do round-trip
C4_IntegersRoundTrip ==
    src.op \in IntegerWriters =>
        /\ src.err = "none"
        /\ ReadBackCase =>
             /\ ~Failed(ret.r)
             /\ SameValue(src.value, ret.op, ret.r.val)
             /\ ret.r.pos = src.at + src.len

C4_IntegersWitness ==
    /\ ReadBackCase /\ src.op = "writeInt64" /\ src.value = PyInt(-2)
    /\ ret.r.val = -2 /\ ret.r.pos = 8

---------------------------------------------------------------------------
(* Claims about the index buffer (SpecIdx) *)

\* the case of C6: the buffer is decoded from its start by a reader whose
\* version supports 32-bit indices
IdxCase ==
    /\ ret.op = "FRawStaticIndexBuffer" /\ ret.start = 0
    /\ env.version >= VER_UE4_SUPPORT_32BIT_STATIC_MESH_INDICES

\* C6: for a version that supports 32-bit indices, a buffer encoded as 32-bit
\* with N indices decodes to indices32 = those N values in order and an empty
\* indices16; a buffer encoded as 16-bit decodes to indices16 = the N values
\* in order and an empty indices32; an empty byte array gives both empty.
\* The indices come from a stream over the bytes of the bulk array, so the
\* reader's cursor ends where the bulk array (and, from 4.25 on, the boolean
\* after it) ends.
C6_IndexBuffer ==
    IdxCase =>
        /\ ~Failed(ret.r)
        /\ ret.r.val.indices32 = (IF src.is32bit THEN src.indices ELSE <<>>)
        /\ ret.r.val.indices16 = (IF src.is32bit THEN <<>> ELSE src.indices)
        /\ ret.r.pos = 4 + 8 + Len(src.indices) * (IF src.is32bit THEN 4 ELSE 2)
                         + (IF env.game >= GAME_UE4(25) THEN 4 ELSE 0)

\* two distinct 32-bit indices come back in their order, with bytes left
\* after the buffer
C6_Witness ==
    /\ IdxCase /\ src.is32bit /\ Len(src.indices) = 2 /\ src.indices[1] # src.indices[2]
    /\ ret.r.val.indices32 = src.indices
    /\ ret.r.pos < Len(base)

\* two 16-bit indices come back, before UE 4.25
C6_Witness16 ==
    /\ IdxCase /\ ~src.is32bit /\ Len(src.indices) = 2 /\ env.game < GAME_UE4(25)
    /\ ret.r.val.indices16 = src.indices

\* an empty byte array
C6_WitnessEmpty ==
    /\ IdxCase /\ src.indices = <<>>
    /\ ret.r.val = [indices16 |-> <<>>, indices32 |-> <<>>]

---------------------------------------------------------------------------
(* Claims about the LOD resources (SpecLOD) *)

InTrace(name) == \E k \in 1..Len(ret.trace) : ret.trace[k] = name

\* where the sub-decoder name started (it is invoked at most once)
MarkOf(name) == ret.marks[CHOOSE k \in 1..Len(ret.trace) : ret.trace[k] = name]

\* the LOD is decoded from its start
LODCase == ret.op = "FStaticMeshLODResources" /\ ret.start = 0

\* the decode went through the whole buffer body
BodyDone == LODCase /\ InTrace("SerializedBuffersSize") /\ InTrace("strip_flags")

\* C7 (as claimed): in the buffer body each optional block (reversed,
\* wireframe and adjacency index buffer, ray-tracing data from 4.25 on) is
\* decoded if and only if its bit is clear in the strip flags read at the
\* start of serializeBuffer.
C7_StripFlagGating ==
    BodyDone =>
        /\ InTrace("reversedIndexBuffer") <=> ~HasBit(src.bodyC, CDSF_ReversedIndexBuffer)
        /\ InTrace("wireframeIndexBuffer") <=> ~HasBit(src.bodyG, 1)
        /\ InTrace("adjacencyIndexBuffer") <=> ~HasBit(src.bodyC, CDSF_AdjancencyData)
        /\ env.game >= GAME_UE4(25) =>
              (InTrace("RawData") <=> ~HasBit(src.bodyC, CDSF_RaytracingResources))

\* what the code does: the blocks are gated by the strip flags read at the
\* start of the LOD, self.stripFlags
C7_OuterFlags ==
    (LODCase /\ InTrace("strip_flags") /\ ret.r.err = "none") =>
        /\ InTrace("reversedIndexBuffer") <=> ~HasBit(src.C, CDSF_ReversedIndexBuffer)
        /\ InTrace("wireframeIndexBuffer") <=> ~HasBit(src.G, 1)
        /\ InTrace("adjacencyIndexBuffer") <=> ~HasBit(src.C, CDSF_AdjancencyData)
        /\ InTrace("RawData") <=>
              (env.game >= GAME_UE4(25) /\ ~HasBit(src.C, CDSF_RaytracingResources))

\* a body whose own flags strip the reversed index buffer, decoded under LOD
\* flags that do not
C7_Diverges ==
    /\ BodyDone /\ HasBit(src.bodyC, CDSF_ReversedIndexBuffer)
    /\ InTrace("reversedIndexBuffer")

\* the first k sub-decoders invoked
TraceStarts(names) ==
    /\ Len(ret.trace) >= Len(names)
    /\ \A k \in 1..Len(names) : ret.trace[k] = names[k]

LODHead == <<"stripFlags", "sections", "maxDeviation">>
LODSwitches == <<"is_lod_cooked_out", "inlined">>
LODSizes == <<"SerializedBuffersSize", "DepthOnlyIBSize", "ReversedIBsSize">>

\* the cursor after the head, and after the two switches
AfterHead == 2 + 4 + src.sections * OpaqueLen + 4
AfterSwitches == AfterHead + 8

\* C10: strip flags, sections and maxDeviation are read first; for game >=
\* 4.23 the two switches are read next, before any body byte, and the body is
\* decoded only if the data is not stripped for server, the LOD is not cooked
\* out and the body is inlined; a stripped or cooked-out body is skipped and
\* exactly the three 32-bit sizes are consumed after the switches; a body
\* that is present but not inlined, or (game < 4.23) present with MinLodData
\* not stripped, raises NotImplementedError without reading a body byte.
C10_LODOrder ==
    LODCase =>
        /\ TraceStarts(LODHead)
        /\ IF env.game >= GAME_UE4(23)
           THEN /\ TraceStarts(LODHead \o LODSwitches)
                /\ ret.marks[4] = AfterHead /\ ret.marks[5] = AfterHead + 4
                /\ \A k \in 6..Len(ret.marks) : ret.marks[k] >= AfterSwitches
                /\ InTrace("strip_flags") <=>
                      (~HasBit(src.G, 2) /\ ~src.cooked /\ src.inlined)
                /\ (HasBit(src.G, 2) \/ src.cooked) =>
                      /\ ret.r.err = "none"
                      /\ ret.trace = LODHead \o LODSwitches \o LODSizes
                      /\ ret.r.pos = AfterSwitches + 12
                /\ (~HasBit(src.G, 2) /\ ~src.cooked /\ ~src.inlined) =>
                      /\ ret.r.err = "NotImplementedError"
                      /\ ret.trace = LODHead \o LODSwitches
                      /\ ret.r.pos = AfterSwitches
           ELSE (~HasBit(src.G, 2) /\ ~HasBit(src.C, CDSF_MinLodData)) =>
                      /\ ret.r.err = "NotImplementedError"
                      /\ ret.trace = LODHead
                      /\ ret.r.pos = AfterHead

\* a cooked-out LOD with a section: the body is skipped, the sizes are read
C10_Witness ==
    /\ LODCase /\ env.game >= GAME_UE4(23) /\ src.cooked /\ src.inlined
    /\ ~HasBit(src.G, 2) /\ src.sections = 1
    /\ ret.trace = LODHead \o LODSwitches \o LODSizes
    /\ ret.r.pos = Len(base)

\* an inlined body is decoded to the end of the stream
C10_WitnessBody ==
    /\ BodyDone /\ ret.r.err = "none" /\ ret.r.pos = Len(base)
    /\ InTrace("adjacencyIndexBuffer")

\* the body is present but not inlined
C10_WitnessNotInlined ==
    /\ LODCase /\ env.game >= GAME_UE4(23) /\ ret.r.err = "NotImplementedError"

\* the legacy layout
C10_WitnessLegacy ==
    /\ LODCase /\ env.game < GAME_UE4(23) /\ ret.r.err = "NotImplementedError"

===========================================================================
